---- MODULE Spec2Model ----
(***************************************************************************)
(* Model of the FDC3 desktop-agent proxy's intent support                  *)
(* (da-proxy/src/intents/DefaultIntentSupport.ts).                         *)
(*                                                                         *)
(* A "flow" is one call of the public API (findIntent,                     *)
(* findIntentsByContext, raiseIntent, raiseIntentForContext) on one        *)
(* DefaultIntentSupport object.  The calls are async: a flow runs up to    *)
(* its next await in one step, and inbound messages, the resolver's answer *)
(* and the gateway's timeout resume it.  The Messaging gateway and the     *)
(* IntentResolver are collaborators whose code is not part of the file;    *)
(* they are modelled from their interface contract.                        *)
(*                                                                         *)
(* The BroadcastHandler of the same file keeps the context-listener        *)
(* registrations and forwards broadcasts to them.  Its handlers are        *)
(* synchronous: accept handles one message in one step.                    *)
(***************************************************************************)
EXTENDS Naturals, Sequences, FiniteSets

(***************************************************************************)
(* Bounds of the model.                                                    *)
(***************************************************************************)
MaxFlows == 2
MaxApps == 2
\* listener registrations held at once: while broadcasts are routed, and while
\* listeners only come and go
MaxListeners == 2
MaxRegs == 3

Flows == 1..MaxFlows

(***************************************************************************)
(* Values.  Null stands for a string-valued field that is null or          *)
(* undefined, Undefined for an absent object.                              *)
(***************************************************************************)
Null == "null"
Undefined == [kind |-> "undefined"]

AppIds == {"A", "B"}
Intents == {"I1", "I2"}
Errors == {"E1", "E2"}

NoAppsFound == "NoAppsFound"
TargetAppUnavailable == "TargetAppUnavailable"
TargetInstanceUnavailable == "TargetInstanceUnavailable"

\* this.messaging.getSource(): this endpoint's own identity
Self == [appId |-> "Self", instanceId |-> "self-1"]

\* the Context argument of the calls is passed through unread
TheContext == [type |-> "instrument"]

AppIdentifier(a, i) == [appId |-> a, instanceId |-> i]
AppMetadata(a, i) == [appId |-> a, instanceId |-> i, version |-> "1.0"]
IntentMetadata(n) == [name |-> n, displayName |-> n]

\* the targetApp arguments a caller can pass ("i2" is an instance no
\* candidate has)
Targets == {AppIdentifier(a, i) : a \in AppIds, i \in {Null, "i1", "i2"}}
\* the candidates a lookup response can list
Candidates == {AppMetadata("A", Null), AppMetadata("A", "i1"), AppMetadata("B", Null)}

SeqsUpTo(S, n) == UNION {[1..k -> S] : k \in 0..n}
AppLists == SeqsUpTo(Candidates, MaxApps)

AppIntentsOf(n, lists) == {[intent |-> IntentMetadata(n), apps |-> l] : l \in lists}

\* obj?.name, for a field that holds an object and for one that holds a string
Field(obj, name) == IF name \in DOMAIN obj THEN obj[name] ELSE Undefined
StrField(obj, name) == IF name \in DOMAIN obj THEN obj[name] ELSE Null

(***************************************************************************)
(* Pure functions of DefaultIntentSupport.ts.                              *)
(***************************************************************************)

\* "rp" of createResultPromise when waitFor resolved to nothing
NoMessage == Undefined
\* an IntentResult that is undefined
Absent == Undefined

DefaultChannel(id, type, displayMetadata) ==
    [kind |-> "DefaultChannel", id |-> id, type |-> type, displayMetadata |-> displayMetadata]
DefaultPrivateChannel(id) == [kind |-> "DefaultPrivateChannel", id |-> id]

convertIntentResult(m) ==
    LET ir == Field(Field(m, "payload"), "intentResult")
        c == Field(ir, "channel")
        x == Field(ir, "context")
    IN  IF c # Undefined
        THEN CASE c.type \in {"app", "user"} -> DefaultChannel(c.id, c.type, StrField(c, "displayMetadata"))
               [] c.type = "private" -> DefaultPrivateChannel(c.id)
               [] OTHER -> Absent
        ELSE IF x # Undefined THEN x ELSE Absent

matchAppId(found, req) ==
    /\ found.appId = req.appId
    /\ \/ (found.instanceId = Null /\ req.instanceId = Null)
       \/ found.instanceId = req.instanceId

filterApps(appIntent, app) ==
    [apps |-> SelectSeq(appIntent.apps, LAMBDA a : matchAppId(a, app)),
     intent |-> appIntent.intent]

(***************************************************************************)
(* What an async function does when it is resumed: it throws, returns,     *)
(* awaits the resolver's chooseIntent, or goes on into                     *)
(* raiseSpecificIntent.                                                    *)
(***************************************************************************)
Throw(e) == [do |-> "throw", error |-> e]
Return(v) == [do |-> "return", value |-> v]
ChooseIntent(appIntents, source) ==
    [do |-> "chooseIntent", appIntents |-> appIntents, source |-> source]
RaiseSpecific(intent, app) == [do |-> "raiseSpecificIntent", intent |-> intent, app |-> app]

\* findIntent up to its await: the request it hands to messaging.exchange
findIntentRequest(intent, context, resultType, meta) ==
    << [op |-> "exchange",
        message |-> [type |-> "findIntentRequest",
                     payload |-> [intent |-> intent, context |-> context,
                                  resultType |-> resultType],
                     meta |-> meta],
        expect |-> "findIntentResponse"] >>

\* a findIntent that looks at the candidates before it looks at the error
findIntentCandidatesFirst(result) ==
    LET error == StrField(result.payload, "error")
        appIntent == Field(result.payload, "appIntent")
    IN  IF appIntent # Undefined /\ Len(appIntent.apps) = 0
        THEN Throw(NoAppsFound)
        ELSE IF error # Null
        THEN Throw(error)
        ELSE Return([intent |-> appIntent.intent, apps |-> appIntent.apps])

\* findIntent once the exchange has answered with `result`
findIntent(result) ==
    LET error == StrField(result.payload, "error")
    IN  IF error # Null
        THEN Throw(error)
        ELSE IF Len(result.payload.appIntent.apps) = 0
        THEN Throw(NoAppsFound)
        ELSE Return([intent |-> result.payload.appIntent.intent,
                     apps |-> result.payload.appIntent.apps])

findIntentsByContextRequest(context, meta) ==
    << [op |-> "exchange",
        message |-> [type |-> "findIntentsByContextRequest",
                     payload |-> [context |-> context],
                     meta |-> meta],
        expect |-> "findIntentsByContextResponse"] >>

findIntentsByContext(result) ==
    IF Len(result.payload.appIntents) = 0
    THEN Throw(NoAppsFound)
    ELSE Return(result.payload.appIntents)

\* ResultFilter without the correlation test: any intent result is accepted
ResultFilterAnyRequest(m, messageOut) ==
    m.type = "raiseIntentResultResponse"

\* ResultFilter without the type test: any message with the request's
\* correlation id is accepted
ResultFilterAnyType(m, messageOut) ==
    m.meta.requestUuid = messageOut.meta.requestUuid

\* the predicate createResultPromise hands to messaging.waitFor
ResultFilter(m, messageOut) ==
    /\ m.type = "raiseIntentResultResponse"
    /\ m.meta.requestUuid = messageOut.meta.requestUuid

\* createResultPromise without the test for a missing message: the timeout is
\* converted and reported like a result
createResultPromiseUnguarded(rp) ==
    LET ir == convertIntentResult(rp)
    IN  [state |-> "resolved", value |-> ir, intentChosen |-> << ir >>]

\* createResultPromise reporting the unconverted wire result to the resolver
createResultPromiseReportsWire(rp) ==
    IF rp = NoMessage
    THEN [state |-> "resolved", value |-> Absent, intentChosen |-> << >>]
    ELSE [state |-> "resolved", value |-> convertIntentResult(rp),
          intentChosen |-> << Field(Field(rp, "payload"), "intentResult") >>]

\* createResultPromise once waitFor has resolved to `rp`: how the result
\* promise settles and the intentChosen calls made
createResultPromise(rp) ==
    IF rp = NoMessage
    THEN [state |-> "resolved", value |-> Absent, intentChosen |-> << >>]
    ELSE LET ir == convertIntentResult(rp)
         IN  [state |-> "resolved", value |-> ir, intentChosen |-> << ir >>]

\* raiseSpecificIntent awaiting the exchange before it creates the result
\* promise: up to its await it only transmits
raiseSpecificIntentSendFirst(intent, context, app, meta) ==
    << [op |-> "exchange",
        message |-> [type |-> "raiseIntentRequest",
                     payload |-> [intent |-> intent, context |-> context, app |-> app],
                     meta |-> meta],
        expect |-> "raiseIntentResponse"] >>

\* raiseSpecificIntent transmitting its request a second time
raiseSpecificIntentResend(intent, context, app, meta) ==
    LET messageOut == [type |-> "raiseIntentRequest",
                       payload |-> [intent |-> intent, context |-> context, app |-> app],
                       meta |-> meta]
    IN  << [op |-> "waitFor", message |-> messageOut],
           [op |-> "exchange", message |-> messageOut, expect |-> "raiseIntentResponse"],
           [op |-> "exchange", message |-> messageOut, expect |-> "raiseIntentResponse"] >>

\* raiseSpecificIntent up to its await: the calls it makes on the gateway, in
\* program order
raiseSpecificIntent(intent, context, app, meta) ==
    LET messageOut == [type |-> "raiseIntentRequest",
                       payload |-> [intent |-> intent, context |-> context, app |-> app],
                       meta |-> meta]
    IN  << [op |-> "waitFor", message |-> messageOut],
           [op |-> "exchange", message |-> messageOut, expect |-> "raiseIntentResponse"] >>

\* raiseSpecificIntent once the exchange has answered with `resolution`
raiseSpecificIntentResponse(resolution, resultPromise) ==
    LET error == StrField(resolution.payload, "error")
    IN  IF error # Null
        THEN Throw(error)
        ELSE LET details == resolution.payload.intentResolution
             IN  Return([kind |-> "DefaultIntentResolution",
                         resultPromise |-> resultPromise,
                         source |-> details.source,
                         intent |-> details.intent,
                         version |-> details.version])

\* raiseIntent raising against the first matching candidate, not the target given
raiseIntentFirstMatch(intent, context, app, found) ==
    IF found.do = "throw" THEN found
    ELSE
    LET matched == found.value
    IN  IF app # Undefined
        THEN LET filtered == filterApps(matched, app)
             IN  IF Len(filtered.apps) = 0 /\ app.instanceId # Null
                 THEN Throw(TargetInstanceUnavailable)
                 ELSE IF Len(filtered.apps) = 0 /\ app.appId # Null
                 THEN Throw(TargetAppUnavailable)
                 ELSE RaiseSpecific(intent, filtered.apps[1])
        ELSE IF Len(matched.apps) = 0
        THEN Throw(NoAppsFound)
        ELSE IF Len(matched.apps) = 1
        THEN RaiseSpecific(intent, matched.apps[1])
        ELSE ChooseIntent(<< matched >>, Self)

\* raiseIntent using the first candidate whenever there is one, never the resolver
raiseIntentNeverAsks(intent, context, app, found) ==
    IF found.do = "throw" THEN found
    ELSE
    LET matched == found.value
    IN  IF app # Undefined
        THEN LET filtered == filterApps(matched, app)
             IN  IF Len(filtered.apps) = 0 /\ app.instanceId # Null
                 THEN Throw(TargetInstanceUnavailable)
                 ELSE IF Len(filtered.apps) = 0 /\ app.appId # Null
                 THEN Throw(TargetAppUnavailable)
                 ELSE RaiseSpecific(intent, app)
        ELSE IF Len(matched.apps) = 0
        THEN Throw(NoAppsFound)
        ELSE RaiseSpecific(intent, matched.apps[1])

\* raiseIntent once findIntent has settled as `found`
raiseIntent(intent, context, app, found) ==
    IF found.do = "throw" THEN found
    ELSE
    LET matched == found.value
    IN  IF app # Undefined
        THEN LET filtered == filterApps(matched, app)
             IN  IF Len(filtered.apps) = 0 /\ app.instanceId # Null
                 THEN Throw(TargetInstanceUnavailable)
                 ELSE IF Len(filtered.apps) = 0 /\ app.appId # Null
                 THEN Throw(TargetAppUnavailable)
                 ELSE RaiseSpecific(intent, app)
        ELSE IF Len(matched.apps) = 0
        THEN Throw(NoAppsFound)
        ELSE IF Len(matched.apps) = 1
        THEN RaiseSpecific(intent, matched.apps[1])
        ELSE ChooseIntent(<< matched >>, Self)

\* raiseIntentForContext keeping the AppIntents that filtering left empty
raiseIntentForContextKeepsEmpty(context, app, found) ==
    IF found.do = "throw" THEN found
    ELSE
    LET all == found.value
        matched == IF app # Undefined
                   THEN [i \in 1..Len(all) |-> filterApps(all[i], app)]
                   ELSE all
    IN  IF Len(matched) = 0
        THEN Throw(NoAppsFound)
        ELSE IF Len(matched) = 1 /\ Len(matched[1].apps) = 1
        THEN RaiseSpecific(matched[1].intent.name, matched[1].apps[1])
        ELSE ChooseIntent(matched, Self)

\* raiseIntentForContext once findIntentsByContext has settled as `found`
raiseIntentForContext(context, app, found) ==
    IF found.do = "throw" THEN found
    ELSE
    LET all == found.value
        mapped == [i \in 1..Len(all) |-> filterApps(all[i], app)]
        matched == IF app # Undefined
                   THEN SelectSeq(mapped, LAMBDA m : Len(m.apps) > 0)
                   ELSE all
    IN  IF Len(matched) = 0
        THEN Throw(NoAppsFound)
        ELSE IF Len(matched) = 1 /\ Len(matched[1].apps) = 1
        THEN RaiseSpecific(matched[1].intent.name, matched[1].apps[1])
        ELSE ChooseIntent(matched, Self)

\* raiseIntent and raiseIntentForContext once chooseIntent has answered
raiseChosenIntent(chosentIntent) ==
    RaiseSpecific(chosentIntent.intent.name, chosentIntent.chosenApp)

(***************************************************************************)
(* The Messaging gateway, from its interface contract.                     *)
(***************************************************************************)
\* createMeta(): envelope metadata with a correlation id not used before
createMeta(uuid) == [requestUuid |-> uuid, source |-> Self]

\* exchange(request, expectedResponseType) resumes on the response of that
\* type that is correlated with the request
ExchangeFilter(m, c) ==
    /\ m.type = c.expect
    /\ m.meta.requestUuid = c.message.meta.requestUuid

\* waitFor(predicate) subscribes when it is called
Arms(calls) == \E i \in 1..Len(calls) : calls[i].op = "waitFor"

(***************************************************************************)
(* The BroadcastHandler of the same file: listener registrations and the   *)
(* fan-out of broadcasts.  A handler takes `this` (the object's fields)    *)
(* and the message, and gives the object's regs afterwards and the         *)
(* messages it handed to sc.post, in order.                                *)
(***************************************************************************)
matches(lr1, lr2) ==
    /\ lr1.appId = lr2.appId
    /\ lr1.instanceId = lr2.instanceId
    /\ lr1.channelId = lr2.channelId
    /\ lr1.contextType = lr2.contextType

createListenerRegistration(msg) ==
    [appId |-> msg.meta.source.appId,
     instanceId |-> msg.meta.source.instanceId,
     channelId |-> msg.payload.channelId,
     contextType |-> msg.payload.contextType]

\* Array.findIndex and Array.splice(i, 1), counting from 1: 0 is "not found"
\* (the test is always that of handleOnUnsubscribe, matches against lr)
findIndex(s, lr) ==
    IF \E i \in 1..Len(s) : matches(s[i], lr)
    THEN CHOOSE i \in 1..Len(s) :
             matches(s[i], lr) /\ \A j \in 1..(i - 1) : ~matches(s[j], lr)
    ELSE 0
splice(s, i) == SubSeq(s, 1, i - 1) \o SubSeq(s, i + 1, Len(s))

\* an unsubscribe that drops every registration that matches
handleOnUnsubscribeAll(this, arg0) ==
    [regs |-> SelectSeq(this.regs,
                        LAMBDA e : ~matches(e, createListenerRegistration(arg0))),
     post |-> << >>]

handleOnUnsubscribe(this, arg0) ==
    LET lr == createListenerRegistration(arg0)
        fi == findIndex(this.regs, lr)
    IN  [regs |-> IF fi > 0 THEN splice(this.regs, fi) ELSE this.regs,
         post |-> << >>]

\* an add that keeps one copy of a registration
handleOnAddContextListenerOnce(this, arg0) ==
    LET lr == createListenerRegistration(arg0)
    IN  [regs |-> IF \E i \in 1..Len(this.regs) : matches(this.regs[i], lr)
                  THEN this.regs
                  ELSE Append(this.regs, lr),
         post |-> << >>]

handleOnAddContextListener(this, arg0) ==
    LET lr == createListenerRegistration(arg0)
    IN  [regs |-> Append(this.regs, lr), post |-> << >>]

\* a filter that looks at the channel alone
BroadcastFilterChannelOnly(r, channelId, contextType) == r.channelId = channelId

\* the filter of handleBroadcast
BroadcastFilter(r, channelId, contextType) ==
    /\ r.channelId = channelId
    /\ (r.contextType = Null \/ r.contextType = contextType)

\* a forwarded message that gets a correlation id and a timestamp of its own
outRestamped(arg0, r) ==
    [meta |-> [source |-> arg0.meta.source,
               destination |-> [appId |-> r.appId, instanceId |-> r.instanceId],
               requestUuid |-> "fresh",
               timestamp |-> "now"],
     type |-> arg0.type,
     payload |-> arg0.payload]

\* the message handleBroadcast builds for registration r
out(arg0, r) ==
    [meta |-> [source |-> arg0.meta.source,
               destination |-> [appId |-> r.appId, instanceId |-> r.instanceId],
               requestUuid |-> arg0.meta.requestUuid,
               timestamp |-> arg0.meta.timestamp],
     type |-> arg0.type,
     payload |-> arg0.payload]

\* a fan-out that sends each destination the broadcast once
handleBroadcastOncePerDestination(this, arg0) ==
    LET all == SelectSeq(this.regs,
                         LAMBDA r : BroadcastFilter(r, arg0.payload.channelId,
                                                    arg0.payload.context.type))
        first(i) == \A j \in 1..(i - 1) :
                        all[j].appId # all[i].appId \/ all[j].instanceId # all[i].instanceId
        marked == [i \in 1..Len(all) |-> [r |-> all[i], first |-> first(i)]]
        kept == SelectSeq(marked, LAMBDA e : e.first)
    IN  [regs |-> this.regs, post |-> [i \in 1..Len(kept) |-> out(arg0, kept[i].r)]]

\* a fan-out that drops the registrations it has served
handleBroadcastOneShot(this, arg0) ==
    LET served(r) == BroadcastFilter(r, arg0.payload.channelId, arg0.payload.context.type)
        to == SelectSeq(this.regs, served)
    IN  [regs |-> SelectSeq(this.regs, LAMBDA r : ~served(r)),
         post |-> [i \in 1..Len(to) |-> out(arg0, to[i])]]

handleBroadcast(this, arg0) ==
    LET channelId == arg0.payload.channelId
        contextType == arg0.payload.context.type
        to == SelectSeq(this.regs, LAMBDA r : BroadcastFilter(r, channelId, contextType))
    IN  [regs |-> this.regs, post |-> [i \in 1..Len(to) |-> out(arg0, to[i])]]

\* a dispatch that knows the namespaced type names alone
acceptNamespacedOnly(this, msg) ==
    CASE msg.type = "PrivateChannel.broadcast" -> handleBroadcast(this, msg)
      [] msg.type = "PrivateChannel.onAddContextListener" ->
             handleOnAddContextListener(this, msg)
      [] msg.type = "PrivateChannel.onUnsubscribe" -> handleOnUnsubscribe(this, msg)
      [] OTHER -> [regs |-> this.regs, post |-> << >>]

accept(this, msg) ==
    CASE msg.type = "PrivateChannel.broadcast" -> handleBroadcast(this, msg)
      [] msg.type = "PrivateChannel.onAddContextListener" ->
             handleOnAddContextListener(this, msg)
      [] msg.type = "PrivateChannel.onUnsubscribe" -> handleOnUnsubscribe(this, msg)
      [] msg.type = "broadcast" -> handleBroadcast(this, msg)
      [] msg.type = "onAddContextListener" -> handleOnAddContextListener(this, msg)
      [] msg.type = "onUnsubscribe" -> handleOnUnsubscribe(this, msg)
      [] OTHER -> [regs |-> this.regs, post |-> << >>]

(***************************************************************************)
(* State.                                                                  *)
(***************************************************************************)
VARIABLES
    pc,           \* per flow: where the call stands
    call,         \* per flow: the API call and its arguments
    found,        \* per flow: the payload of the lookup response it received
    chooseCalls,  \* per flow: the chooseIntent calls made on the resolver
    chooseAnswers,\* per flow: what the resolver answered to them
    gateway,      \* per flow: the calls made on the Messaging gateway, in order
    outcome,      \* per flow: what the call returned or threw
    waiter,       \* per flow: the waitFor subscription: none, waiting, done
    result,       \* per flow: the result promise of createResultPromise
    chosen,       \* per flow: the intentChosen calls made on the resolver
    dropped,      \* per flow: why result messages for its request went unobserved
    nextUuid,     \* the next correlation id createMeta mints
    acked,        \* per flow: the payload of the raise acknowledgement it received
    regs,         \* BroadcastHandler.regs
    posted,       \* what the handler gave to sc.post since the latest broadcast came in
    twin          \* a second BroadcastHandler, sent every message under its other type name

vars == << pc, call, found, chooseCalls, chooseAnswers, gateway, outcome, waiter, result, chosen,
           dropped, nextUuid, acked, regs, posted, twin >>
intents == << pc, call, found, chooseCalls, chooseAnswers, gateway, outcome, waiter, result,
              chosen, dropped, nextUuid, acked >>
router == << regs, posted, twin >>

NoCall == [kind |-> "none"]
NoOutcome == [kind |-> "none"]
Pending == [state |-> "pending", value |-> Absent, by |-> "none", msg |-> NoMessage,
            settles |-> 0]

Init ==
    /\ pc = [f \in Flows |-> "idle"]
    /\ call = [f \in Flows |-> NoCall]
    /\ found = [f \in Flows |-> Undefined]
    /\ chooseCalls = [f \in Flows |-> << >>]
    /\ chooseAnswers = [f \in Flows |-> << >>]
    /\ gateway = [f \in Flows |-> << >>]
    /\ outcome = [f \in Flows |-> NoOutcome]
    /\ waiter = [f \in Flows |-> "none"]
    /\ result = [f \in Flows |-> Pending]
    /\ chosen = [f \in Flows |-> << >>]
    /\ dropped = [f \in Flows |-> {}]
    /\ nextUuid = 1
    /\ acked = [f \in Flows |-> Undefined]
    /\ regs = << >>
    /\ posted = << >>
    /\ twin = [regs |-> << >>, posted |-> << >>]

\* the messages flow f has transmitted (handed to exchange)
Transmitted(f) ==
    LET ex == SelectSeq(gateway[f], LAMBDA c : c.op = "exchange")
    IN  [i \in 1..Len(ex) |-> ex[i].message]
RaiseRequests(f) == SelectSeq(Transmitted(f), LAMBDA m : m.type = "raiseIntentRequest")
\* the request captured by the predicate of flow f's waitFor
WaitingFor(f) == SelectSeq(gateway[f], LAMBDA c : c.op = "waitFor")[1].message
\* the exchange flow f is awaiting
AwaitedExchange(f) == gateway[f][Len(gateway[f])]

\* a result message correlated with a raise request flow f has transmitted
IsResultFor(m, f) ==
    /\ m.type = "raiseIntentResultResponse"
    /\ \E i \in 1..Len(RaiseRequests(f)) :
           RaiseRequests(f)[i].meta.requestUuid = m.meta.requestUuid

Settle(f, how, by, m) ==
    IF result[f].state = "pending"
    THEN [state |-> how.state, value |-> how.value, by |-> by, msg |-> m,
          settles |-> result[f].settles + 1]
    ELSE [result[f] EXCEPT !.settles = @ + 1]

\* The gateway offers inbound message m to every waitFor subscription: the
\* first message a subscription's predicate accepts resolves it and ends it.
Hit(m, f) == waiter[f] = "waiting" /\ ResultFilter(m, WaitingFor(f))
Offered(m) ==
    [waiter |-> [f \in Flows |-> IF Hit(m, f) THEN "done" ELSE waiter[f]],
     result |-> [f \in Flows |->
                    IF Hit(m, f)
                    THEN Settle(f, createResultPromise(m), "message", m)
                    ELSE result[f]],
     chosen |-> [f \in Flows |->
                    IF Hit(m, f)
                    THEN chosen[f] \o createResultPromise(m).intentChosen
                    ELSE chosen[f]],
     dropped |-> [f \in Flows |->
                    IF ~Hit(m, f) /\ IsResultFor(m, f)
                    THEN dropped[f] \cup
                         {CASE waiter[f] = "none" -> "unarmed"
                            [] waiter[f] = "waiting" -> "unmatched"
                            [] result[f].by = "timeout" -> "timedout"
                            [] OTHER -> "consumed"}
                    ELSE dropped[f]]]
Unoffered ==
    [waiter |-> waiter, result |-> result, chosen |-> chosen, dropped |-> dropped]

\* Flow f goes on as `step` says, after the subscriptions became `b`.
Resume(f, step, b) ==
    /\ result' = b.result
    /\ chosen' = b.chosen
    /\ dropped' = b.dropped
    /\ UNCHANGED << call, router >>
    /\ CASE step.do = "throw" ->
              /\ pc' = [pc EXCEPT ![f] = "failed"]
              /\ outcome' = [outcome EXCEPT ![f] = [kind |-> "error", message |-> step.error]]
              /\ waiter' = b.waiter
              /\ UNCHANGED << chooseCalls, gateway, nextUuid >>
         [] step.do = "return" ->
              /\ pc' = [pc EXCEPT ![f] = "returned"]
              /\ outcome' = [outcome EXCEPT ![f] = [kind |-> "value", value |-> step.value]]
              /\ waiter' = b.waiter
              /\ UNCHANGED << chooseCalls, gateway, nextUuid >>
         [] step.do = "chooseIntent" ->
              /\ pc' = [pc EXCEPT ![f] = "chooseIntent"]
              /\ chooseCalls' = [chooseCalls EXCEPT ![f] =
                                    Append(@, [appIntents |-> step.appIntents,
                                               source |-> step.source])]
              /\ waiter' = b.waiter
              /\ UNCHANGED << outcome, gateway, nextUuid >>
         [] step.do = "raiseSpecificIntent" ->
              LET calls == raiseSpecificIntent(step.intent, TheContext, step.app,
                                               createMeta(nextUuid))
              IN  /\ pc' = [pc EXCEPT ![f] = "raiseIntentResponse"]
                  /\ gateway' = [gateway EXCEPT ![f] = @ \o calls]
                  /\ nextUuid' = nextUuid + 1
                  /\ waiter' = [b.waiter EXCEPT ![f] = IF Arms(calls) THEN "waiting" ELSE @]
                  /\ UNCHANGED << outcome, chooseCalls >>

(***************************************************************************)
(* The API calls: each runs to its first await, the lookup exchange.       *)
(***************************************************************************)
Start(f, c, calls) ==
    /\ pc[f] = "idle"
    /\ call' = [call EXCEPT ![f] = c]
    /\ gateway' = [gateway EXCEPT ![f] = @ \o calls]
    /\ nextUuid' = nextUuid + 1
    /\ pc' = [pc EXCEPT ![f] = calls[Len(calls)].expect]
    /\ UNCHANGED << found, chooseCalls, chooseAnswers, outcome, waiter, result, chosen,
                    dropped, acked, router >>

CallFindIntent(f, intent) ==
    Start(f, [kind |-> "findIntent", intent |-> intent, app |-> Undefined],
          findIntentRequest(intent, TheContext, Null, createMeta(nextUuid)))

CallFindIntentsByContext(f) ==
    Start(f, [kind |-> "findIntentsByContext", intent |-> Null, app |-> Undefined],
          findIntentsByContextRequest(TheContext, createMeta(nextUuid)))

CallRaiseIntent(f, intent, app) ==
    Start(f, [kind |-> "raiseIntent", intent |-> intent, app |-> app],
          findIntentRequest(intent, TheContext, Null, createMeta(nextUuid)))

CallRaiseIntentForContext(f, app) ==
    Start(f, [kind |-> "raiseIntentForContext", intent |-> Null, app |-> app],
          findIntentsByContextRequest(TheContext, createMeta(nextUuid)))

(***************************************************************************)
(* Inbound messages, the resolver's answer, the gateway's timeout.         *)
(***************************************************************************)
Response(f, payload) ==
    [type |-> AwaitedExchange(f).expect,
     meta |-> [requestUuid |-> AwaitedExchange(f).message.meta.requestUuid],
     payload |-> payload]

DeliverFindIntentResponse(f, payload) ==
    LET m == Response(f, payload)
    IN  /\ pc[f] = "findIntentResponse"
        /\ ExchangeFilter(m, AwaitedExchange(f))
        /\ found' = [found EXCEPT ![f] = payload]
        /\ UNCHANGED << chooseAnswers, acked >>
        /\ Resume(f,
                  IF call[f].kind = "findIntent"
                  THEN findIntent(m)
                  ELSE raiseIntent(call[f].intent, TheContext, call[f].app, findIntent(m)),
                  Offered(m))

DeliverFindIntentsByContextResponse(f, payload) ==
    LET m == Response(f, payload)
    IN  /\ pc[f] = "findIntentsByContextResponse"
        /\ ExchangeFilter(m, AwaitedExchange(f))
        /\ found' = [found EXCEPT ![f] = payload]
        /\ UNCHANGED << chooseAnswers, acked >>
        /\ Resume(f,
                  IF call[f].kind = "findIntentsByContext"
                  THEN findIntentsByContext(m)
                  ELSE raiseIntentForContext(TheContext, call[f].app, findIntentsByContext(m)),
                  Offered(m))

ResolverChooses(f, chosentIntent) ==
    /\ pc[f] = "chooseIntent"
    /\ chooseAnswers' = [chooseAnswers EXCEPT ![f] = Append(@, chosentIntent)]
    /\ UNCHANGED << found, acked >>
    /\ Resume(f, raiseChosenIntent(chosentIntent), Unoffered)

DeliverRaiseIntentResponse(f, payload) ==
    LET m == Response(f, payload)
    IN  /\ pc[f] = "raiseIntentResponse"
        /\ ExchangeFilter(m, AwaitedExchange(f))
        /\ acked' = [acked EXCEPT ![f] = payload]
        /\ UNCHANGED << found, chooseAnswers >>
        /\ Resume(f, raiseSpecificIntentResponse(m, f), Offered(m))

DeliverRaiseIntentResult(uuid, payload) ==
    LET m == [type |-> "raiseIntentResultResponse",
              meta |-> [requestUuid |-> uuid],
              payload |-> payload]
        b == Offered(m)
    IN  /\ uuid \in 1..(nextUuid - 1)
        /\ waiter' = b.waiter
        /\ result' = b.result
        /\ chosen' = b.chosen
        /\ dropped' = b.dropped
        /\ UNCHANGED << pc, call, found, chooseCalls, chooseAnswers, gateway, outcome,
                        nextUuid, acked, router >>

\* waitFor gives up and resolves to nothing
Timeout(f) ==
    /\ waiter[f] = "waiting"
    /\ waiter' = [waiter EXCEPT ![f] = "done"]
    /\ result' = [result EXCEPT ![f] = Settle(f, createResultPromise(NoMessage),
                                                "timeout", NoMessage)]
    /\ chosen' = [chosen EXCEPT ![f] = @ \o createResultPromise(NoMessage).intentChosen]
    /\ UNCHANGED << pc, call, found, chooseCalls, chooseAnswers, gateway, outcome, dropped,
                    nextUuid, acked, router >>

(***************************************************************************)
(* Messages for the BroadcastHandler.  Each kind of message goes under two *)
(* type names, the namespaced one and the bare one.                        *)
(***************************************************************************)
Listeners == {AppIdentifier("A", "i1"), AppIdentifier("A", "i2")}
Broadcaster == AppIdentifier("B", "i1")
ChannelIds == {"ch1", "ch2"}
ListenedTypes == {Null, "instrument"}
BroadcastTypes == {"instrument", "contact"}

BroadcastNames == {"PrivateChannel.broadcast", "broadcast"}
AddContextListenerNames == {"PrivateChannel.onAddContextListener", "onAddContextListener"}
UnsubscribeNames == {"PrivateChannel.onUnsubscribe", "onUnsubscribe"}
OtherName(type) ==
    CASE type = "PrivateChannel.broadcast" -> "broadcast"
      [] type = "broadcast" -> "PrivateChannel.broadcast"
      [] type = "PrivateChannel.onAddContextListener" -> "onAddContextListener"
      [] type = "onAddContextListener" -> "PrivateChannel.onAddContextListener"
      [] type = "PrivateChannel.onUnsubscribe" -> "onUnsubscribe"
      [] type = "onUnsubscribe" -> "PrivateChannel.onUnsubscribe"

ListenerMessage(type, source, channelId, contextType) ==
    [type |-> type,
     meta |-> [source |-> source, requestUuid |-> "u1", timestamp |-> "t1"],
     payload |-> [channelId |-> channelId, contextType |-> contextType]]
BroadcastMessage(type, channelId, contextType) ==
    [type |-> type,
     meta |-> [source |-> Broadcaster, requestUuid |-> "u2", timestamp |-> "t2"],
     payload |-> [channelId |-> channelId, context |-> [type |-> contextType]]]

\* The handler is given msg, its twin the same message under the other name:
\* the router's variables once accept has returned.
Accepted(msg) ==
    LET a == accept([regs |-> regs], msg)
        b == accept([regs |-> twin.regs], [msg EXCEPT !.type = OtherName(@)])
        fresh == msg.type \in BroadcastNames
    IN  [regs |-> a.regs,
         posted |-> (IF fresh THEN << >> ELSE posted) \o a.post,
         twin |-> [regs |-> b.regs,
                   posted |-> (IF fresh THEN << >> ELSE twin.posted) \o b.post]]

\* No more than max registrations are ever asked for.
AddContextListener(type, source, channelId, contextType, max) ==
    LET n == Accepted(ListenerMessage(type, source, channelId, contextType))
    IN  /\ Len(n.regs) <= max
        /\ regs' = n.regs
        /\ posted' = n.posted
        /\ twin' = n.twin
        /\ UNCHANGED intents

Unsubscribe(type, source, channelId, contextType) ==
    LET n == Accepted(ListenerMessage(type, source, channelId, contextType))
    IN  /\ regs' = n.regs
        /\ posted' = n.posted
        /\ twin' = n.twin
        /\ UNCHANGED intents

Broadcast(type, channelId, contextType) ==
    LET n == Accepted(BroadcastMessage(type, channelId, contextType))
    IN  /\ regs' = n.regs
        /\ posted' = n.posted
        /\ twin' = n.twin
        /\ UNCHANGED intents

(***************************************************************************)
(* What the callers, the desktop agent, and the resolver can send.         *)
(***************************************************************************)
NoTarget == Undefined

\* findIntentResponse payloads: an error (alone, or beside an empty appIntent),
\* or an appIntent with up to MaxApps candidates
FindIntentErrors ==
    {[error |-> e] : e \in Errors} \cup
    {[error |-> e, appIntent |-> [intent |-> IntentMetadata("I1"), apps |-> << >>]] :
        e \in Errors}
FindIntentPayloads ==
    FindIntentErrors \cup
    {[appIntent |-> ai] : ai \in UNION {AppIntentsOf(n, AppLists) : n \in Intents}}

\* findIntentsByContextResponse payloads: at most one AppIntent per intent
OptionalAppIntent(n) == {<< >>} \cup {<< ai >> : ai \in AppIntentsOf(n, AppLists)}
FindIntentsByContextPayloads ==
    {[appIntents |-> x \o y] : x \in OptionalAppIntent("I1"), y \in OptionalAppIntent("I2")}

\* what chooseIntent can answer
Choices ==
    {[intent |-> IntentMetadata(n), chosenApp |-> a] : n \in Intents, a \in Candidates}

\* raiseIntentResponse payloads
IntentResolutionOf(a, n) ==
    [intentResolution |-> [source |-> AppIdentifier(a, "i1"), intent |-> n, version |-> "1.0"]]
RaiseIntentErrors == {[error |-> e] : e \in Errors}
RaiseIntentPayloads ==
    RaiseIntentErrors \cup {IntentResolutionOf("A", "I1"), IntentResolutionOf("B", "I2")}

\* raiseIntentResultResponse payloads
ChannelResult(type) ==
    [intentResult |-> [channel |-> [type |-> type, id |-> "ch1", displayMetadata |-> "dm"]]]
ContextResult == [intentResult |-> [context |-> [type |-> "contact"]]]
VoidResult == [intentResult |-> [resultType |-> Null]]
ChannelAndContextResult ==
    [intentResult |-> [channel |-> [type |-> "user", id |-> "ch2", displayMetadata |-> "dm"],
                       context |-> [type |-> "contact"]]]
IntentResultPayloads ==
    {ChannelResult("app"), ChannelResult("private"), ContextResult, VoidResult,
     ChannelAndContextResult}

(***************************************************************************)
(* Specifications.  D names the inputs drawn: targets, lookups, choices,   *)
(* acks, results.                                                          *)
(***************************************************************************)
FindNext(F, D) ==
    \E f \in F :
        \/ CallFindIntent(f, "I1")
        \/ CallFindIntentsByContext(f)

RaiseNext(F, D) ==
    \/ \E f \in F :
        \/ \E app \in D.targets : CallRaiseIntent(f, "I1", app)
        \/ \E app \in D.targets : CallRaiseIntentForContext(f, app)
        \/ \E payload \in D.lookups : DeliverFindIntentResponse(f, payload)
        \/ \E payload \in D.contextLookups : DeliverFindIntentsByContextResponse(f, payload)
        \/ \E chosentIntent \in D.choices : ResolverChooses(f, chosentIntent)
        \/ \E payload \in D.acks : DeliverRaiseIntentResponse(f, payload)
        \/ Timeout(f)
    \/ \E uuid \in 1..(2 * MaxFlows), payload \in D.results :
           DeliverRaiseIntentResult(uuid, payload)

\* One call at a time, every lookup response and every target.
ResolveInputs ==
    [targets |-> Targets \cup {NoTarget},
     lookups |-> FindIntentPayloads,
     contextLookups |-> FindIntentsByContextPayloads,
     choices |-> Choices,
     acks |-> {[error |-> "E1"], IntentResolutionOf("A", "I1")},
     results |-> {ContextResult}]
Next == FindNext({1}, ResolveInputs) \/ RaiseNext({1}, ResolveInputs)
Spec == Init /\ [][Next]_vars

\* One raise at a time, every acknowledgement and every result message.
OneA == [appIntent |-> [intent |-> IntentMetadata("I1"), apps |-> << AppMetadata("A", Null) >>]]
AandB == [appIntent |-> [intent |-> IntentMetadata("I1"),
                         apps |-> << AppMetadata("A", Null), AppMetadata("B", Null) >>]]
ResultInputs ==
    [targets |-> {NoTarget, AppIdentifier("A", Null)},
     lookups |-> {OneA, AandB},
     contextLookups |-> {[appIntents |-> << OneA.appIntent >>],
                         [appIntents |-> << AandB.appIntent >>]},
     choices |-> {[intent |-> IntentMetadata("I2"), chosenApp |-> AppMetadata("B", Null)]},
     acks |-> RaiseIntentPayloads,
     results |-> IntentResultPayloads]
NextResult == RaiseNext({1}, ResultInputs)
SpecResult == Init /\ [][NextResult]_vars

\* Up to MaxFlows raiseIntent calls in flight at the same time, each finding
\* one candidate.
NextConc ==
    \/ \E f \in Flows :
        \/ CallRaiseIntent(f, "I1", NoTarget)
        \/ DeliverFindIntentResponse(f, OneA)
        \/ DeliverRaiseIntentResponse(f, IntentResolutionOf("A", "I1"))
        \/ Timeout(f)
    \/ \E uuid \in 1..(2 * MaxFlows) : DeliverRaiseIntentResult(uuid, ContextResult)
SpecConc == Init /\ [][NextConc]_vars

\* Listeners come and go on the BroadcastHandler, up to max at once.
ListenNext(max) ==
    \E source \in Listeners, channelId \in ChannelIds, contextType \in ListenedTypes :
        \/ \E type \in AddContextListenerNames :
               AddContextListener(type, source, channelId, contextType, max)
        \/ \E type \in UnsubscribeNames :
               Unsubscribe(type, source, channelId, contextType)
BroadcastNext ==
    \E type \in BroadcastNames, channelId \in ChannelIds, contextType \in BroadcastTypes :
        Broadcast(type, channelId, contextType)

\* Broadcasts are routed while listeners come and go.
NextRouter == ListenNext(MaxListeners) \/ BroadcastNext
SpecRouter == Init /\ [][NextRouter]_vars

\* Listeners only come and go.
NextRegs == ListenNext(MaxRegs)
SpecRegs == Init /\ [][NextRegs]_vars

(***************************************************************************)
(* Properties of the result correlation.                                   *)
(***************************************************************************)
IsRaiseRequest(c) == c.op = "exchange" /\ c.message.type = "raiseIntentRequest"
Raised(f) == Len(RaiseRequests(f)) > 0
RequestUuid(f) == RaiseRequests(f)[1].meta.requestUuid

\* C1, as stated: no result message correlated with a transmitted raise request
\* ever goes unobserved.
C1_NoResultUnobserved == \A f \in Flows : dropped[f] = {}

\* C1, amended: in every raise flow the waitFor for the request's correlation id
\* is called before the request is handed to exchange, so the subscription
\* exists whenever the request has been transmitted; a correlated result that
\* arrives after the transmission goes unobserved only when the wait has
\* already ended, by its timeout or by an earlier correlated result.
C1_SubscribedBeforeSend ==
    \A f \in Flows :
        /\ \A i \in 1..Len(gateway[f]) :
               IsRaiseRequest(gateway[f][i]) =>
                   \E j \in 1..(i - 1) :
                       /\ gateway[f][j].op = "waitFor"
                       /\ gateway[f][j].message.meta.requestUuid
                              = gateway[f][i].message.meta.requestUuid
        /\ Raised(f) => waiter[f] # "none"
        /\ dropped[f] \subseteq {"timedout", "consumed"}

\* a result observed while the acknowledgement is still outstanding
C1_ResultBeforeAck ==
    \E f \in Flows : pc[f] = "raiseIntentResponse" /\ result[f].by = "message"

\* C2: a result future settles from a message only if the message is a
\* raiseIntentResultResponse carrying the flow's own request correlation id, and
\* no two flows carry the same correlation id.
C2_OwnResultOnly ==
    /\ \A f \in Flows :
           result[f].by = "message" =>
               /\ result[f].msg.type = "raiseIntentResultResponse"
               /\ Raised(f)
               /\ result[f].msg.meta.requestUuid = RequestUuid(f)
    /\ \A f, g \in Flows :
           f # g =>
               \A i \in 1..Len(Transmitted(f)), j \in 1..Len(Transmitted(g)) :
                   Transmitted(f)[i].meta.requestUuid # Transmitted(g)[j].meta.requestUuid

\* one flow settled by its result while another, already acknowledged, still waits
C2_OtherFlowStillWaiting ==
    \E f, g \in Flows :
        /\ f # g
        /\ result[f].by = "message"
        /\ pc[g] = "returned"
        /\ waiter[g] = "waiting"
        /\ result[g].state = "pending"

\* C3: when waitFor times out, the result future resolves to no value, does not
\* reject, and intentChosen is not invoked for the flow, then or later.
C3_TimeoutSettlesAbsent ==
    \A f \in Flows :
        result[f].by = "timeout" =>
            /\ result[f].state = "resolved"
            /\ result[f].value = Absent
            /\ chosen[f] = << >>

\* a raise that was acknowledged and whose wait timed out
C3_TimedOut == \E f \in Flows : pc[f] = "returned" /\ result[f].by = "timeout"

\* C4: the result future settles at most once and intentChosen is invoked at
\* most once per flow; when a correlated result is observed, intentChosen is
\* invoked exactly once, with the IntentResult the future settles to.
C4_SettlesOnce ==
    \A f \in Flows :
        /\ result[f].settles <= 1
        /\ Len(chosen[f]) <= 1
        /\ result[f].by = "message" =>
               /\ result[f].state = "resolved"
               /\ chosen[f] = << result[f].value >>

\* a second correlated result arrived after the first had settled the future
C4_SecondResultArrived ==
    \E f \in Flows :
        /\ result[f].by = "message"
        /\ StrField(result[f].value, "kind") = "DefaultPrivateChannel"
        /\ "consumed" \in dropped[f]

(***************************************************************************)
(* Properties of the lookups and of the choice of the app to raise on.     *)
(***************************************************************************)
Answered(f) == found[f] # Undefined
LookupError(f) == StrField(found[f], "error") # Null
Failed(f, e) == pc[f] = "failed" /\ outcome[f] = [kind |-> "error", message |-> e]

\* the match rule: same appId, and instanceId both absent or both the same
SameApp(candidate, target) ==
    candidate.appId = target.appId /\ candidate.instanceId = target.instanceId
MatchingApps(apps, target) == SelectSeq(apps, LAMBDA a : SameApp(a, target))
\* the raise request a flow has transmitted names intent n and app a
RaisedOn(f, n, a) ==
    /\ Len(RaiseRequests(f)) = 1
    /\ RaiseRequests(f)[1].payload.intent = n
    /\ RaiseRequests(f)[1].payload.app = a

\* C5: an AppIntent returned by findIntent, and every AppIntent in the list
\* returned by findIntentsByContext, has at least one candidate; a response with
\* no candidates makes the call fail with NoAppsFound.
C5_SuccessHasCandidates ==
    \A f \in Flows :
        /\ (call[f].kind = "findIntent" /\ pc[f] = "returned") =>
               Len(outcome[f].value.apps) > 0
        /\ (call[f].kind = "findIntentsByContext" /\ pc[f] = "returned") =>
               \A i \in 1..Len(outcome[f].value) : Len(outcome[f].value[i].apps) > 0
        /\ (call[f].kind = "findIntentsByContext" /\ Answered(f)
              /\ \E i \in 1..Len(found[f].appIntents) : Len(found[f].appIntents[i].apps) = 0) =>
               Failed(f, NoAppsFound)

\* C6: raiseIntent with a targetApp whose instanceId is set fails with
\* TargetInstanceUnavailable whenever the lookup answers with a candidate list,
\* the empty one included, in which no candidate matches the target.
C6_TargetInstanceUnavailable ==
    \A f \in Flows :
        (/\ call[f].kind = "raiseIntent"
         /\ call[f].app # NoTarget
         /\ Answered(f) /\ ~LookupError(f)
         /\ call[f].app.instanceId # Null
         /\ MatchingApps(found[f].appIntent.apps, call[f].app) = << >>)
        => Failed(f, TargetInstanceUnavailable)

\* C7: raiseIntent with a targetApp that has only its appId set fails with
\* TargetAppUnavailable whenever the lookup answers with a candidate list in
\* which no candidate matches the target.
C7_TargetAppUnavailable ==
    \A f \in Flows :
        (/\ call[f].kind = "raiseIntent"
         /\ call[f].app # NoTarget
         /\ Answered(f) /\ ~LookupError(f)
         /\ call[f].app.instanceId = Null
         /\ MatchingApps(found[f].appIntent.apps, call[f].app) = << >>)
        => Failed(f, TargetAppUnavailable)

\* C8: when raiseIntent is given a targetApp that at least one candidate matches,
\* the raiseIntentRequest transmitted names the targetApp as it was given and
\* the intent as it was given, and chooseIntent is not invoked.
C8_RaisesOnGivenTarget ==
    \A f \in Flows :
        (/\ call[f].kind = "raiseIntent"
         /\ call[f].app # NoTarget
         /\ Answered(f) /\ ~LookupError(f)
         /\ MatchingApps(found[f].appIntent.apps, call[f].app) # << >>)
        => /\ RaisedOn(f, call[f].intent, call[f].app)
           /\ chooseCalls[f] = << >>
           /\ pc[f] # "chooseIntent"

\* a target that two candidates match, raised on
C8_TwoMatches ==
    \E f \in Flows :
        /\ call[f].kind = "raiseIntent"
        /\ call[f].app # NoTarget
        /\ Answered(f) /\ ~LookupError(f)
        /\ Len(MatchingApps(found[f].appIntent.apps, call[f].app)) = 2
        /\ Raised(f)

\* C9: in raiseIntent without a targetApp, chooseIntent is invoked if and only
\* if the lookup returned more than one candidate, and then once, with the list
\* holding the one AppIntent found and with the requester's identity, and the
\* request raised names the intent and the app the resolver answered; with
\* exactly one candidate the request names that candidate.
C9_ResolverIffSeveral ==
    \A f \in Flows :
        (call[f].kind = "raiseIntent" /\ call[f].app = NoTarget /\ Answered(f)) =>
            LET apps == IF LookupError(f) THEN << >> ELSE found[f].appIntent.apps
            IN  /\ (chooseCalls[f] # << >>) <=> (Len(apps) > 1)
                /\ Len(apps) = 1 => RaisedOn(f, call[f].intent, apps[1])
                /\ Len(apps) > 1 =>
                       /\ chooseCalls[f] =
                              << [appIntents |-> << [intent |-> found[f].appIntent.intent,
                                                    apps |-> apps] >>,
                                  source |-> Self] >>
                       /\ pc[f] = "chooseIntent" <=> chooseAnswers[f] = << >>
                       /\ pc[f] = "chooseIntent" => ~Raised(f)
                       /\ pc[f] # "chooseIntent" =>
                              /\ Len(chooseAnswers[f]) = 1
                              /\ RaisedOn(f, chooseAnswers[f][1].intent.name,
                                          chooseAnswers[f][1].chosenApp)

\* candidates A and B found, the resolver chose B, the request names B
C9_ResolverChoseB ==
    \E f \in Flows :
        /\ call[f].kind = "raiseIntent" /\ call[f].app = NoTarget
        /\ Answered(f) /\ ~LookupError(f)
        /\ found[f].appIntent.apps = << AppMetadata("A", Null), AppMetadata("B", Null) >>
        /\ Raised(f)
        /\ RaiseRequests(f)[1].payload.app = AppMetadata("B", Null)

\* what is left of the AppIntents for a target: each one's matching candidates,
\* the AppIntents left without any dropped
LeftFor(appIntents, target) ==
    IF target = NoTarget THEN appIntents
    ELSE SelectSeq([i \in 1..Len(appIntents) |->
                       [apps |-> MatchingApps(appIntents[i].apps, target),
                        intent |-> appIntents[i].intent]],
                   LAMBDA ai : ai.apps # << >>)

\* C10: in raiseIntentForContext, with the AppIntents left after filtering for
\* the targetApp: none left fails with NoAppsFound; one left with one candidate
\* is raised on without chooseIntent; otherwise chooseIntent is given the whole
\* list left and the request names the intent and the app the resolver answered.
C10_ContextResolution ==
    \A f \in Flows :
        (call[f].kind = "raiseIntentForContext" /\ Answered(f)) =>
            LET left == LeftFor(found[f].appIntents, call[f].app)
            IN  /\ Len(left) = 0 =>
                       Failed(f, NoAppsFound) /\ ~Raised(f) /\ chooseCalls[f] = << >>
                /\ (Len(left) = 1 /\ Len(left[1].apps) = 1) =>
                       /\ chooseCalls[f] = << >>
                       /\ RaisedOn(f, left[1].intent.name, left[1].apps[1])
                /\ (Len(left) > 1 \/ (Len(left) = 1 /\ Len(left[1].apps) # 1)) =>
                       /\ chooseCalls[f] = << [appIntents |-> left, source |-> Self] >>
                       /\ pc[f] = "chooseIntent" <=> chooseAnswers[f] = << >>
                       /\ pc[f] = "chooseIntent" => ~Raised(f)
                       /\ pc[f] # "chooseIntent" =>
                              /\ Len(chooseAnswers[f]) = 1
                              /\ RaisedOn(f, chooseAnswers[f][1].intent.name,
                                          chooseAnswers[f][1].chosenApp)

\* a target matched under two intents, the resolver asked and answered
C10_TargetUnderTwoIntents ==
    \E f \in Flows :
        /\ call[f].kind = "raiseIntentForContext"
        /\ call[f].app # NoTarget
        /\ Answered(f)
        /\ Len(LeftFor(found[f].appIntents, call[f].app)) = 2
        /\ \E i \in 1..Len(found[f].appIntents) :
               Len(found[f].appIntents[i].apps)
                   > Len(MatchingApps(found[f].appIntents[i].apps, call[f].app))
        /\ Len(chooseAnswers[f]) = 1
        /\ Raised(f)

(***************************************************************************)
(* Properties of the broadcast router.                                     *)
(***************************************************************************)
Broadcasts ==
    {BroadcastMessage(type, channelId, contextType) :
        type \in BroadcastNames, channelId \in ChannelIds, contextType \in BroadcastTypes}
ListenerMessages(names) ==
    {ListenerMessage(type, source, channelId, contextType) :
        type \in names, source \in Listeners, channelId \in ChannelIds,
        contextType \in ListenedTypes}

\* this step is the handler accepting msg
Handles(msg) ==
    LET a == accept([regs |-> regs], msg)
    IN  /\ regs' = a.regs
        /\ posted' = (IF msg.type \in BroadcastNames THEN << >> ELSE posted) \o a.post

Destination(r) == [appId |-> r.appId, instanceId |-> r.instanceId]
\* the messages in `outs` that go to destination d
ForwardsTo(outs, d) == Len(SelectSeq(outs, LAMBDA m : m.meta.destination = d))
\* registration r is on another channel than broadcast b, or asks for another
\* context type than b carries
Mismatched(r, b) ==
    \/ r.channelId # b.payload.channelId
    \/ (r.contextType # Null /\ r.contextType # b.payload.context.type)

\* C11: when a broadcast is handled, a destination is forwarded no more
\* messages than it has registrations that are on the broadcast's channel and
\* whose contextType is unset or equal to the broadcast context's type: nothing
\* is forwarded on account of a registration of another channel or another type.
C11_NeverForwardsMismatched ==
    [][\A b \in Broadcasts : Handles(b) =>
          \A d \in Listeners :
              ForwardsTo(posted', d) <=
                  Len(SelectSeq(regs, LAMBDA r : Destination(r) = d /\ ~Mismatched(r, b)))]_vars

\* C11, its case: a "contact" broadcast went once to a destination that also
\* holds an "instrument" registration on that channel.
C11_TypedListenerPassedOver ==
    /\ Len(posted) = 1
    /\ posted[1].payload.context.type = "contact"
    /\ \E i \in 1..Len(regs) :
           /\ Destination(regs[i]) = posted[1].meta.destination
           /\ regs[i].channelId = posted[1].payload.channelId
           /\ regs[i].contextType = "instrument"
    /\ \E i \in 1..Len(regs) :
           /\ Destination(regs[i]) = posted[1].meta.destination
           /\ regs[i].channelId = posted[1].payload.channelId
           /\ regs[i].contextType = Null

\* C12: when a broadcast is handled, the number of messages forwarded to a
\* destination is the number of registrations held for that destination,
\* duplicates counted, that are on the broadcast's channel and whose contextType
\* is unset or equal to the broadcast context's type.
C12_ForwardsPerRegistration ==
    [][\A b \in Broadcasts : Handles(b) =>
          \A d \in Listeners :
              ForwardsTo(posted', d) =
                  Len(SelectSeq(regs, LAMBDA r :
                                    /\ r.appId = d.appId
                                    /\ r.instanceId = d.instanceId
                                    /\ r.channelId = b.payload.channelId
                                    /\ r.contextType \in {Null, b.payload.context.type}))]_vars

\* C12, its case (scenario A): with a wildcard and an "instrument" registration
\* of one destination on one channel, an "instrument" broadcast on that channel
\* went to the destination twice.
C12_ScenarioA ==
    /\ Len(regs) = 2
    /\ Destination(regs[1]) = Destination(regs[2])
    /\ regs[1].channelId = regs[2].channelId
    /\ {regs[1].contextType, regs[2].contextType} = {Null, "instrument"}
    /\ Len(posted) = 2
    /\ \A i \in 1..2 :
           /\ posted[i].meta.destination = Destination(regs[1])
           /\ posted[i].payload.channelId = regs[1].channelId
           /\ posted[i].payload.context.type = "instrument"

\* the registration a listener message asks for
Requested(msg) ==
    [appId |-> msg.meta.source.appId, instanceId |-> msg.meta.source.instanceId,
     channelId |-> msg.payload.channelId, contextType |-> msg.payload.contextType]
\* where registration r is held in s
Held(s, r) == {i \in 1..Len(s) : s[i] = r}
Least(S) == CHOOSE i \in S : \A j \in S : i <= j

\* C13: when an unsubscribe is handled and no held registration equals the
\* requested one on all four fields, the registrations stay as they are;
\* otherwise the first such registration in insertion order is taken out and
\* every other registration stays, in the same order.
C13_UnsubscribeRemovesFirst ==
    [][\A u \in ListenerMessages(UnsubscribeNames) : Handles(u) =>
          LET at == Held(regs, Requested(u))
          IN  IF at = {}
              THEN regs' = regs
              ELSE /\ Len(regs') = Len(regs) - 1
                   /\ \A j \in 1..Len(regs') :
                          regs'[j] = IF j < Least(at) THEN regs[j] ELSE regs[j + 1]]_vars

\* C13, its case: a registration is held twice, with one between the two that
\* differs from it in contextType alone; unsubscribes are handled from here.
C13_DuplicateAroundOtherType ==
    /\ Len(regs) = 3
    /\ regs[1] = regs[3]
    /\ regs[2] # regs[1]
    /\ [regs[2] EXCEPT !.contextType = regs[1].contextType] = regs[1]

\* the destinations of the messages in `outs`, in order
Destinations(outs) == [i \in 1..Len(outs) |-> outs[i].meta.destination]
Messages ==
    Broadcasts \cup ListenerMessages(AddContextListenerNames)
               \cup ListenerMessages(UnsubscribeNames)

\* C14: two handlers that were sent the same messages, each message under one
\* type name to the one and under the other type name to the other, hold the
\* same registrations and forwarded the latest broadcast to the same
\* destinations; and from the registrations held, a message of any of the three
\* kinds leaves the same registrations and goes to the same destinations under
\* either of its type names.
C14_SpellingsEquivalent ==
    /\ twin.regs = regs
    /\ Destinations(twin.posted) = Destinations(posted)
    /\ \A msg \in Messages :
           LET a == accept([regs |-> regs], msg)
               b == accept([regs |-> regs], [msg EXCEPT !.type = OtherName(@)])
           IN  a.regs = b.regs /\ Destinations(a.post) = Destinations(b.post)

\* C14, its case: a broadcast that came under its bare name to the one handler
\* and under its namespaced name to the other was forwarded by both, on
\* account of the registrations both hold.
C14_BareAndNamespaced ==
    /\ Len(posted) = 2
    /\ Len(twin.posted) = 2
    /\ posted[1].type = "broadcast"
    /\ twin.posted[1].type = "PrivateChannel.broadcast"
    /\ Len(regs) = 2
    /\ regs[1] # regs[2]

(***************************************************************************)
(* Properties of the failures of the intent calls.                         *)
(***************************************************************************)
Acked(f) == acked[f] # Undefined
AckError(f) == StrField(acked[f], "error") # Null

\* C15: a findIntent or raiseIntent call whose findIntentResponse carried an
\* error field, with or without an AppIntent beside it, and a raiseIntent or
\* raiseIntentForContext call whose raiseIntentResponse carried an error field,
\* has failed with exactly that message and has returned no value.
C15_RemoteErrorVerbatim ==
    \A f \in Flows :
        /\ (call[f].kind \in {"findIntent", "raiseIntent"} /\ Answered(f) /\ LookupError(f))
               => /\ pc[f] = "failed"
                  /\ outcome[f] = [kind |-> "error", message |-> found[f].error]
        /\ (Acked(f) /\ AckError(f))
               => /\ pc[f] = "failed"
                  /\ outcome[f] = [kind |-> "error", message |-> acked[f].error]

\* C15, its case: findIntent was answered with an error beside an AppIntent
\* that has no candidates, and failed with the error.
C15_ErrorBesideNoCandidates ==
    \E f \in Flows :
        /\ call[f].kind = "findIntent"
        /\ Answered(f)
        /\ LookupError(f)
        /\ Field(found[f], "appIntent") # Undefined
        /\ Len(found[f].appIntent.apps) = 0
        /\ Failed(f, found[f].error)

LookupRequests(f) ==
    SelectSeq(Transmitted(f),
              LAMBDA m : m.type \in {"findIntentRequest", "findIntentsByContextRequest"})
Subscriptions(f) == SelectSeq(gateway[f], LAMBDA c : c.op = "waitFor")
\* the failures that arise before a raise request: the three resolve errors,
\* and the error of the lookup response
EarlyFailure(f) ==
    /\ pc[f] = "failed"
    /\ outcome[f].kind = "error"
    /\ \/ outcome[f].message \in {NoAppsFound, TargetAppUnavailable, TargetInstanceUnavailable}
       \/ (LookupError(f) /\ outcome[f].message = found[f].error)

\* C16: a raiseIntent or raiseIntentForContext call has transmitted exactly one
\* lookup request and at most one raiseIntentRequest; a call that has failed
\* without an acknowledgement carrying an error has failed with NoAppsFound,
\* TargetAppUnavailable, TargetInstanceUnavailable or the error of the lookup
\* response, and has then transmitted no raiseIntentRequest, subscribed to no
\* result and not called chooseIntent.
C16_NoRetry ==
    \A f \in Flows :
        call[f].kind \in {"raiseIntent", "raiseIntentForContext"} =>
            /\ Len(LookupRequests(f)) = 1
            /\ Len(RaiseRequests(f)) <= 1
            /\ (pc[f] = "failed" /\ ~(Acked(f) /\ AckError(f))) => EarlyFailure(f)
            /\ EarlyFailure(f) =>
                   /\ RaiseRequests(f) = << >>
                   /\ Subscriptions(f) = << >>
                   /\ waiter[f] = "none"
                   /\ chooseCalls[f] = << >>

\* C16, its case: a raiseIntent call for a target, answered with candidates
\* none of which is the target, has failed with TargetAppUnavailable.
C16_FailedBeforeRaising ==
    \E f \in Flows :
        /\ call[f].kind = "raiseIntent"
        /\ call[f].app # NoTarget
        /\ Answered(f)
        /\ ~LookupError(f)
        /\ Len(found[f].appIntent.apps) = 2
        /\ Failed(f, TargetAppUnavailable)

(***************************************************************************)
(* Properties of the broadcast router, continued.                          *)
(***************************************************************************)
\* the registrations in s that broadcast b is for, in the order of s
MatchesOf(s, b) == SelectSeq(s, LAMBDA r : ~Mismatched(r, b))

\* C17: every message is handled in one step.  A step that handles a broadcast
\* leaves the registrations as they are and forwards to exactly the
\* registrations, held when the step begins, that the broadcast is for; a step
\* that changes the registrations leaves the forwards of the broadcast handled
\* before it as they are.
C17_HandledAtomically ==
    [][/\ regs' # regs => posted' = posted
       /\ \A b \in Broadcasts : Handles(b) =>
              /\ regs' = regs
              /\ Destinations(posted') =
                     [i \in 1..Len(MatchesOf(regs, b)) |-> Destination(MatchesOf(regs, b)[i])]
      ]_vars

\* C17, its case: a broadcast was forwarded on account of two registrations
\* that have since been removed.
C17_ForwardsOutliveRegistrations ==
    /\ Len(posted) = 2
    /\ regs = << >>

\* C18: a step that handles a broadcast posts one message for each registration
\* the broadcast is for, in the order the registrations were added; the message
\* goes to the appId and instanceId of its registration, and its type, payload,
\* source, correlation id and timestamp are those of the broadcast.
C18_ForwardedAsReceived ==
    [][\A b \in Broadcasts : Handles(b) =>
          LET to == MatchesOf(regs, b)
          IN  /\ Len(posted') = Len(to)
              /\ \A i \in 1..Len(to) :
                     /\ posted'[i].meta.destination.appId = to[i].appId
                     /\ posted'[i].meta.destination.instanceId = to[i].instanceId
                     /\ posted'[i].type = b.type
                     /\ posted'[i].payload = b.payload
                     /\ posted'[i].meta.source = b.meta.source
                     /\ posted'[i].meta.requestUuid = b.meta.requestUuid
                     /\ posted'[i].meta.timestamp = b.meta.timestamp]_vars

\* C18, its case: a broadcast under its namespaced name was forwarded to two
\* destinations, in the order their registrations are held in.
C18_TwoDestinationsInOrder ==
    /\ Len(regs) = 2
    /\ Len(posted) = 2
    /\ Destination(regs[1]) # Destination(regs[2])
    /\ \A i \in 1..2 :
           /\ posted[i].meta.destination = Destination(regs[i])
           /\ posted[i].type = "PrivateChannel.broadcast"
           /\ posted[i].meta.source = Broadcaster

(***************************************************************************)
(* Properties of the notification of the resolver.                         *)
(***************************************************************************)
\* C19, as stated: once the acknowledgement of a raise has carried an error,
\* intentChosen is not invoked for that flow any more.
C19_NoChoiceAfterFailedRaise ==
    [][\A f \in Flows : (Acked(f) /\ AckError(f)) => chosen'[f] = chosen[f]]_vars

\* C19, amended: intentChosen is invoked only for a flow that has transmitted a
\* raise request and whose subscription has observed a raiseIntentResultResponse
\* with that request's correlation id, and it is invoked with the conversion of
\* that message; the subscription of a flow whose acknowledgement carried an
\* error stays in place, so what the acknowledgement said does not matter.
C19_ChosenOnObservedResult ==
    \A f \in Flows :
        /\ chosen[f] # << >> =>
               /\ Raised(f)
               /\ result[f].by = "message"
               /\ result[f].msg.type = "raiseIntentResultResponse"
               /\ result[f].msg.meta.requestUuid = RequestUuid(f)
               /\ chosen[f] = << convertIntentResult(result[f].msg) >>
        /\ (Acked(f) /\ AckError(f)) => waiter[f] \in {"waiting", "done"}

\* C19, its case: the raise call failed with the error of its acknowledgement,
\* and intentChosen was invoked for the flow.
C19_ChosenForFailedRaise ==
    \E f \in Flows :
        /\ Acked(f)
        /\ Failed(f, acked[f].error)
        /\ Len(chosen[f]) = 1

(***************************************************************************)
(* Properties of the registrations as a multiset.                          *)
(***************************************************************************)
Registrations == {Requested(m) : m \in ListenerMessages(AddContextListenerNames)}
Copies(s, r) == Len(SelectSeq(s, LAMBDA e : e = r))
\* the registrations after an add-listener message and then its unsubscribe
AddedThenUnsubscribed(add) ==
    accept([regs |-> accept([regs |-> regs], add).regs],
           [add EXCEPT !.type = "PrivateChannel.onUnsubscribe"]).regs

\* C20: from the registrations held at any time, an add of r followed at once
\* by an unsubscribe of r gives back the same registrations as a multiset, so
\* that every broadcast goes to every destination as often as before; a step
\* that handles an add of r raises the number of copies of r by one, a step
\* that handles an unsubscribe of r lowers it by one when there is a copy and
\* leaves it at zero when there is none, and either step leaves the number of
\* copies of every other registration as it is.
C20_AddThenUnsubscribe ==
    /\ [](\A add \in ListenerMessages(AddContextListenerNames) :
            /\ \A q \in Registrations :
                   Copies(AddedThenUnsubscribed(add), q) = Copies(regs, q)
            /\ \A b \in Broadcasts, d \in Listeners :
                   ForwardsTo(accept([regs |-> AddedThenUnsubscribed(add)], b).post, d)
                       = ForwardsTo(accept([regs |-> regs], b).post, d))
    /\ [][/\ \A add \in ListenerMessages(AddContextListenerNames) : Handles(add) =>
                 \A q \in Registrations :
                     Copies(regs', q) =
                         Copies(regs, q) + (IF q = Requested(add) THEN 1 ELSE 0)
          /\ \A u \in ListenerMessages(UnsubscribeNames) : Handles(u) =>
                 \A q \in Registrations :
                     Copies(regs', q) =
                         IF q = Requested(u) /\ Copies(regs, q) > 0
                         THEN Copies(regs, q) - 1
                         ELSE Copies(regs, q)]_vars

\* C20, its case: r was added where a copy of r and, after it, a registration
\* on another channel were held; the unsubscribe of r that follows takes out
\* the older copy.
C20_AddedBesideCopy ==
    /\ Len(regs) = 3
    /\ regs[3] = regs[1]
    /\ regs[2].channelId # regs[1].channelId
====
